---- MODULE Spec2Model ----
(***************************************************************************)
(* ATS resume scoring: the scoring engine (ats_app/utils/score_calculator, *)
(* ats_app/utils/nlp_processor) and the two request handlers that reach it *)
(* (ats_app/views: index/handle_resume_upload and api_analyze).            *)
(*                                                                         *)
(* Six specifications: Spec (one request answered by two worker            *)
(* processes), SpecProcess (worker processes serving one request after the *)
(* other), SpecDirect (the functions of the engine called directly),       *)
(* SpecSuggest (_generate_suggestions on any five payloads), SpecSite      *)
(* (uploads, resume updates, downloads and page views on one database) and *)
(* SpecUpload (uploads of one user handled by two workers at once).        *)
(*                                                                         *)
(* A text is abstracted to the features the code reads from it:            *)
(*   len, tlen  its length and its length after strip()                    *)
(*   terms      the vocabulary TfidfVectorizer builds from preprocess_text *)
(*   skills     the catalog skills that occur in it as substrings          *)
(*   other      the noun chunks / entities spaCy reports for it            *)
(*   sents      the number of sentences longer than 10 characters          *)
(* Terms and skills are numbered 1..MaxItem.  The values the embedding     *)
(* model and the vectorizer compute (cosine similarities) are inputs of a  *)
(* request, on a grid of step 1/SimDen.                                    *)
(*                                                                         *)
(* Scores are exact rationals in units of 1/ScoreDen point; total_score is *)
(* kept in tenths of a point, as round(x, 1) returns it.                   *)
(***************************************************************************)
EXTENDS Integers, Sequences, FiniteSets, TLC

VARIABLES
    hashseed,       \* per worker process: the iteration order its str hashes give a set
    req,            \* the request the client sends (the same request may be sent again)
    resp,           \* per worker: the HTTP response it gave to req
    score_results,  \* per worker: what calculate_ats_score returned or raised for req
    analysis,       \* per worker: the ResumeAnalysis row the upload created
    sg_in,          \* the five payloads handed to _generate_suggestions
    sg_out,         \* the list _generate_suggestions returned
    call,           \* a direct call of a function of the engine: its arguments
    ret,            \* what the direct call returned or raised
    models_available,   \* per worker: whether its host has the language models
    nlp_inits,      \* per worker: how many times NLPProcessor.__init__ has loaded
                    \* the language resources in it
    db,             \* SpecSite, SpecUpload: the ResumeAnalysis table (a row's id is
                    \* its position), the user's UserProfile.analyses_count, and
                    \* the files in MEDIA_ROOT
    handler,        \* per worker: where it is in an upload of the user, and the
                    \* profile it has loaded
    log             \* the last call the site completed with its response, and which
                    \* uploads and updates have succeeded or failed so far

vars == <<hashseed, req, resp, score_results, analysis, sg_in, sg_out, call, ret,
          models_available, nlp_inits, db, handler, log>>

---------------------------------------------------------------------------
(* Bounds of the model *)

\* terms and skills are numbered 1..MaxItem
MaxItem == 3
\* skills 1..MaxCat are in the catalog, the others are only ever noun chunks
MaxCat == 2
\* a cosine similarity is k/SimDen
SimDen == 2
\* formatting issues reported by the extractor: at most MaxIssues
MaxIssues == 2
\* structured paragraphs of a document: at most MaxPara
MaxPara == 3
\* missing items handed to _generate_suggestions: at most MaxMissing
MaxMissing == 6

\* a term occurs at most MaxCount times in a text
MaxCount == 2
\* sentences of a job description handed to calculate_bert_similarity: at most MaxSent
MaxSent == 2

\* TfidfVectorizer's smoothed idf, ln((1 + n) / (1 + df)) + 1 for n = 2
\* documents, in tenths: a term of both documents, a term of one
IdfBoth == 10
IdfOne == 14

\* requests one worker process serves one after the other: at most MaxServed
MaxServed == 2

\* noun chunks of a long job description: MaxBulk more, numbered after the items
MaxBulk == 11

\* rows in the ResumeAnalysis table: at most MaxRows
MaxRows == 2

\* units per score point: every score of the model is a whole number of units
ScoreDen == 2 * 2 * 3 * 5

Items == 1..MaxItem
Catalog == 1..MaxCat
Bulk == (MaxItem + 1)..(MaxItem + MaxBulk)
Workers == {"w1", "w2"}

---------------------------------------------------------------------------
(* Helpers *)

Min(a, b) == IF a < b THEN a ELSE b
Max(a, b) == IF a > b THEN a ELSE b

\* s[:n]
Take(s, n) == SubSeq(s, 1, Min(n, Len(s)))

Range(s) == {s[i] : i \in 1..Len(s)}

\* sorted(S) for numbered items: ascending
RECURSIVE Sorted(_)
Sorted(S) ==
    IF S = {} THEN <<>>
    ELSE LET m == CHOOSE x \in S : \A y \in S : x <= y
         IN <<m>> \o Sorted(S \ {m})

\* list(a_set): the elements in the order the process's hash seed gives them
\* (the seed orders the items; the bulk noun chunks follow, ascending)
SetToList(S, seed) ==
    SelectSeq(seed, LAMBDA x : x \in S) \o Sorted(S \ Range(seed))

\* round(n/d, 0) as Python rounds: to nearest, ties to even
RoundHalfEven(n, d) ==
    LET q == n \div d
        r == n % d
    IN IF 2 * r < d THEN q
       ELSE IF 2 * r > d THEN q + 1
       ELSE IF q % 2 = 0 THEN q ELSE q + 1

\* s turned left by k places, and s backwards
Rot(s, k) == [i \in 1..Len(s) |-> s[((i + k - 1) % Len(s)) + 1]]
Rev(s) == [i \in 1..Len(s) |-> s[Len(s) + 1 - i]]

\* the orders a process's hash seed may give the items: every rotation of them,
\* forwards and backwards (for three items, every order)
HashOrders ==
    {Rot(Sorted(Items), k) : k \in 0..(MaxItem - 1)}
    \cup {Rev(Rot(Sorted(Items), k)) : k \in 0..(MaxItem - 1)}

\* raise: err names the exception, and stands for its message str(e) as well
Raise(kind) == [ok |-> FALSE, err |-> kind]
Return(v) == [ok |-> TRUE, val |-> v]

---------------------------------------------------------------------------
(* nlp_processor.py *)

\* the exceptions the libraries raise inside the engine:
\* TfidfVectorizer.fit_transform on texts without any term
EmptyVocabulary == "ValueError: empty vocabulary; perhaps the documents only contain stop words"
\* cosine_similarity on the nan that np.mean gives for no sentence vectors
NanEmbedding == "ValueError: Expected 2D array, got 1D array instead"
\* spacy.load / SentenceTransformer when the model cannot be loaded
ModelNotFound == "OSError: Can't find model"

\* NLPProcessor.__init__: loads the spaCy model, the lemmatizer, the stop words
\* and the embedding model; available says whether the models can be loaded
NLPProcessor(available) ==
    IF available THEN Return("nlp_processor") ELSE Raise(ModelNotFound)

\* self.skill_patterns: the catalog (its categories folded into one)
skill_patterns == [programming_languages |-> Catalog]

\* extract_keywords: TfidfVectorizer.fit_transform raises ValueError on an empty
\* vocabulary; otherwise every feature of the single document has a positive
\* weight, and the top_k best are returned (term numbers stand for weight rank)
extract_keywords(text, top_k) ==
    IF text.terms = {} THEN Raise(EmptyVocabulary)
    ELSE Return(Take(Sorted(text.terms), top_k))

\* extract_skills: catalog skills by substring, in catalog order; 'other' is
\* list(set(additional_skills))
extract_skills(text, seed) ==
    [programming_languages |->
        SelectSeq(Sorted(skill_patterns.programming_languages),
                  LAMBDA s : s \in text.skills),
     other |-> SetToList(text.other, seed)]

\* a skill string: the phrase it spells and whether it is written in lower case
\* only or with capitals
Str(name, case) == [name |-> name, case |-> case]

\* str.lower()
lower(s) == [s EXCEPT !.case = "lower"]

\* list(a_set) of skill strings, in the order the hash seed gives the phrases
RECURSIVE StrList(_, _, _)
StrList(S, seed, i) ==
    IF i > Len(seed) THEN <<>>
    ELSE SelectSeq(<<Str(seed[i], "lower"), Str(seed[i], "mixed")>>,
                   LAMBDA x : x \in S)
         \o StrList(S, seed, i + 1)

\* the entities that pass the label, length and technology-word tests, as
\* spaCy spells them in the text
additional_entities(ents) ==
    {e.text : e \in {x \in ents : x.label \in {"ORG", "PRODUCT", "GPE"}
                                  /\ x.long /\ x.tech_word}}

\* the noun chunks that pass the length, stop-word and letter tests, lower-cased
additional_chunks(chunks) ==
    {lower(c.text) : c \in {x \in chunks : x.short /\ ~x.stop_word /\ x.alpha}}

\* extract_skills on the strings themselves: text.skills are the catalog skills
\* found in text.lower(), text.ents the entities and text.chunks the noun chunks
\* spaCy finds in the text
extract_skills_strings(text, seed) ==
    [programming_languages |->
        SelectSeq([i \in 1..Len(Sorted(skill_patterns.programming_languages)) |->
                      Str(Sorted(skill_patterns.programming_languages)[i], "lower")],
                  LAMBDA s : s.name \in text.skills),
     other |-> StrList(additional_entities(text.ents)
                           \cup additional_chunks(text.chunks), seed, 1)]

\* calculate_tfidf_similarity: the vectorizer is fitted on both texts and raises
\* only if the joint vocabulary is empty; a text without terms has the zero
\* vector, whose cosine with anything is 0.  tfidf is the cosine of the two
\* vectors when both have terms
calculate_tfidf_similarity(resume_text, jd_text, tfidf) ==
    IF resume_text.terms = {} /\ jd_text.terms = {} THEN Raise(EmptyVocabulary)
    ELSE LET both == resume_text.terms \cap jd_text.terms
         IN Return([similarity_score |-> IF both = {} THEN 0 ELSE tfidf,
                    matching_terms |-> Take(Sorted(both), 20)])

\* calculate_bert_similarity: np.mean over no sentence vectors is nan, and
\* cosine_similarity refuses it with ValueError; bert is the cosine of the two
\* document embeddings otherwise
calculate_bert_similarity(resume_sents, jd_sents, bert) ==
    IF resume_sents = 0 \/ jd_sents = 0 THEN Raise(NanEmbedding)
    ELSE Return([document_similarity |-> bert])

\* the fraction n/d in lowest terms
RECURSIVE GCD(_, _)
GCD(a, b) == IF b = 0 THEN a ELSE GCD(b, a % b)
Frac(n, d) == [num |-> n \div GCD(n, d), den |-> d \div GCD(n, d)]

RECURSIVE SumOver(_, _)
SumOver(S, f) ==
    IF S = {} THEN 0
    ELSE LET x == CHOOSE y \in S : TRUE IN f[x] + SumOver(S \ {x}, f)

\* list.sort(key = ..., reverse = True) of the terms S: by falling key; the
\* sort is stable, so equal keys stay in the order of the features
RECURSIVE SortedByKey(_, _)
SortedByKey(S, key) ==
    IF S = {} THEN <<>>
    ELSE LET m == CHOOSE x \in S :
                      \A y \in S : key[x] > key[y] \/ (key[x] = key[y] /\ x <= y)
         IN <<m>> \o SortedByKey(S \ {m}, key)

\* the vocabulary the vectorizer fits on the two texts: every term of either
Vocabulary(resume_counts, jd_counts) ==
    {t \in DOMAIN resume_counts : resume_counts[t] > 0 \/ jd_counts[t] > 0}

\* a plausible slip: the document frequency taken from the resume alone
Idf_resume_only(t, resume_counts, jd_counts) ==
    IF resume_counts[t] > 0 THEN IdfBoth ELSE IdfOne

\* idf of a term: by the number of the two texts it occurs in
Idf(t, resume_counts, jd_counts) ==
    IF resume_counts[t] > 0 /\ jd_counts[t] > 0 THEN IdfBoth ELSE IdfOne

\* the key of the sort: 'combined_score' = resume_score * jd_score, which
\* within one call is ordered as the product of the weights before normalising
CombinedKey(resume_weight, jd_weight) == resume_weight * jd_weight

\* calculate_tfidf_similarity on the term counts of the two texts.  A term's
\* weight in a text is count * idf, and each row is L2-normalised (a zero row
\* stays zero).  Scores are never negative; they are kept as the exact
\* fractions of their squares.
tfidf_similarity(resume_counts, jd_counts) ==
    LET feature_names == Vocabulary(resume_counts, jd_counts)
        rw == [t \in feature_names |-> resume_counts[t] * Idf(t, resume_counts, jd_counts)]
        jw == [t \in feature_names |-> jd_counts[t] * Idf(t, resume_counts, jd_counts)]
        rn == SumOver(feature_names, [t \in feature_names |-> rw[t] * rw[t]])
        jn == SumOver(feature_names, [t \in feature_names |-> jw[t] * jw[t]])
        dot == SumOver(feature_names, [t \in feature_names |-> rw[t] * jw[t]])
        matching == {t \in feature_names : rw[t] > 0 /\ jw[t] > 0}
        order == SortedByKey(matching, [t \in matching |-> CombinedKey(rw[t], jw[t])])
    IN IF feature_names = {} THEN Raise(EmptyVocabulary)
       ELSE Return(
           [similarity_score |->
                IF rn = 0 \/ jn = 0 THEN Frac(0, 1) ELSE Frac(dot * dot, rn * jn),
            matching_terms |->
                Take([i \in 1..Len(order) |->
                         [term |-> order[i],
                          resume_score |-> Frac(rw[order[i]] * rw[order[i]], rn),
                          jd_score |-> Frac(jw[order[i]] * jw[order[i]], jn),
                          combined_score |->
                              Frac(rw[order[i]] * rw[order[i]] * jw[order[i]] * jw[order[i]],
                                   rn * jn)]], 20)])

\* the alignment loop of calculate_bert_similarity for one resume sentence: row
\* holds its cosine with each job description sentence; 0 as best_match stands
\* for the empty string
RECURSIVE BestMatch(_, _, _, _)
BestMatch(row, j, max_sim, best_match) ==
    IF j > Len(row) THEN [best_match |-> best_match, similarity |-> max_sim]
    ELSE IF row[j] > max_sim THEN BestMatch(row, j + 1, row[j], j)
    ELSE BestMatch(row, j + 1, max_sim, best_match)

\* 'sentence_similarities': one entry per resume sentence, in order
sentence_similarities(sim) ==
    [i \in 1..Len(sim) |->
        [resume_sentence |-> i,
         best_match |-> BestMatch(sim[i], 1, 0, 0).best_match,
         similarity |-> BestMatch(sim[i], 1, 0, 0).similarity]]

---------------------------------------------------------------------------
(* score_calculator.py *)

\* ATSScoreCalculator.__init__: a new NLPProcessor
ATSScoreCalculator(available) == NLPProcessor(available)

\* a plausible slip: two weights exchanged
weights_exchanged ==
    [keyword_match |-> 25, skill_match |-> 30, semantic_similarity |-> 20,
     experience_relevance |-> 15, formatting_quality |-> 10]

\* self.weights, in hundredths
weights ==
    [keyword_match |-> 30, skill_match |-> 25, semantic_similarity |-> 20,
     experience_relevance |-> 15, formatting_quality |-> 10]

\* n points, in score units
Points(n) == n * ScoreDen

\* min(len(matched) / len(wanted) * 100, 100)
MatchPercentage(matched, wanted) ==
    Min((Points(100) * Cardinality(matched)) \div Cardinality(wanted), Points(100))

_calculate_keyword_score(resume_text, jd_text, seed) ==
    LET jd_keywords == extract_keywords(jd_text, 30)
        resume_keywords == extract_keywords(resume_text, 50)
    IN IF ~jd_keywords.ok THEN jd_keywords
       ELSE IF ~resume_keywords.ok THEN resume_keywords
       ELSE LET jd_keyword_set == Range(jd_keywords.val)
                resume_keyword_set == Range(resume_keywords.val)
                matched_keywords == jd_keyword_set \cap resume_keyword_set
                missing_keywords == jd_keyword_set \ resume_keyword_set
                score == IF Cardinality(jd_keyword_set) > 0
                         THEN MatchPercentage(matched_keywords, jd_keyword_set)
                         ELSE 0
            IN Return([score |-> score,
                       matched_keywords |-> SetToList(matched_keywords, seed),
                       missing_keywords |-> SetToList(missing_keywords, seed),
                       total_jd_keywords |-> Cardinality(jd_keyword_set),
                       matched_count |-> Cardinality(matched_keywords)])

\* a plausible slip: only the catalog category flattened
AllSkills_catalog(skills_by_category) == Range(skills_by_category.programming_languages)

\* every category of the extracted skills, 'other' included, flattened to a set
AllSkills(skills_by_category) ==
    UNION {Range(skills_by_category[c]) : c \in DOMAIN skills_by_category}

_calculate_skill_score(resume_text, jd_text, seed) ==
    LET resume_skills == extract_skills(resume_text, seed)
        jd_skills == extract_skills(jd_text, seed)
        resume_all_skills == AllSkills(resume_skills)
        jd_all_skills == AllSkills(jd_skills)
        matched_skills == resume_all_skills \cap jd_all_skills
        missing_skills == jd_all_skills \ resume_all_skills
        score == IF Cardinality(jd_all_skills) > 0
                 THEN MatchPercentage(matched_skills, jd_all_skills)
                 ELSE Points(50)
    IN Return([score |-> score,
               matched_skills |-> SetToList(matched_skills, seed),
               missing_skills |-> SetToList(missing_skills, seed),
               resume_skills_by_category |-> resume_skills,
               jd_skills_by_category |-> jd_skills,
               total_jd_skills |-> Cardinality(jd_all_skills),
               matched_count |-> Cardinality(matched_skills)])

\* similarity * 100, in score units
SimScore(k) == (k * Points(100)) \div SimDen

_calculate_semantic_score(resume_text, jd_text, tfidf, bert) ==
    LET tfidf_result == calculate_tfidf_similarity(resume_text, jd_text, tfidf)
        bert_result == calculate_bert_similarity(resume_text.sents, jd_text.sents, bert)
    IN IF ~tfidf_result.ok THEN tfidf_result
       ELSE IF ~bert_result.ok THEN bert_result
       ELSE LET tfidf_score == SimScore(tfidf_result.val.similarity_score)
                bert_score == SimScore(bert_result.val.document_similarity)
                combined_score == (tfidf_score * 4 + bert_score * 6) \div 10
            IN Return([score |-> combined_score,
                       tfidf_similarity |-> tfidf_score,
                       bert_similarity |-> bert_score,
                       top_matching_terms |-> Take(tfidf_result.val.matching_terms, 10)])

EmptyDict == [keys |-> {}, paragraphs |-> <<>>]

\* a plausible slip: the default given as a dict with an empty 'paragraphs'
get_structured_content_empty_list(resume_data) ==
    IF resume_data.has_structured_content THEN resume_data.structured_content
    ELSE [keys |-> {"paragraphs"}, paragraphs |-> <<>>]

\* resume_data.get('structured_content', {})
get_structured_content(resume_data) ==
    IF resume_data.has_structured_content THEN resume_data.structured_content
    ELSE EmptyDict

RECURSIVE SumSents(_)
SumSents(paras) ==
    IF paras = <<>> THEN 0 ELSE Head(paras).sents + SumSents(Tail(paras))

\* structured_content is a dict: keys are the keys it has, paragraphs the value
\* of 'paragraphs'.  A paragraph is abstracted to exp (its text contains one of
\* the experience keywords) and sents (its sentences longer than 10 characters)
_calculate_experience_score(structured_content, jd_text, expbert) ==
    IF structured_content.keys = {} \/ "paragraphs" \notin structured_content.keys
    THEN Return([score |-> Points(30),
                 details |-> "Unable to analyze experience structure"])
    ELSE LET experience_paragraphs ==
                 SelectSeq(structured_content.paragraphs, LAMBDA para : para.exp)
         IN IF experience_paragraphs = <<>>
            THEN Return([score |-> Points(20),
                         details |-> "No clear experience section found"])
            ELSE LET similarity ==
                         calculate_bert_similarity(SumSents(experience_paragraphs),
                                                   jd_text.sents, expbert)
                 IN IF ~similarity.ok THEN similarity
                    ELSE Return([score |-> SimScore(similarity.val.document_similarity),
                                 experience_paragraphs_count |-> Len(experience_paragraphs),
                                 relevance_score |-> similarity.val.document_similarity])

\* an issue string; the extractor's are "Page <n> has extraction issues"
Issue(s, n) == [issue |-> s, page |-> n]

EmptyMetadata == [has_formatting_issues |-> FALSE, formatting_issues |-> <<>>]

_calculate_formatting_score(resume_data) ==
    LET metadata == IF resume_data.has_metadata THEN resume_data.metadata ELSE EmptyMetadata
        reported == metadata.has_formatting_issues /\ metadata.formatting_issues # <<>>
        score1 == IF reported THEN 100 - Len(metadata.formatting_issues) * 10 ELSE 100
        issues1 == IF reported THEN metadata.formatting_issues ELSE <<>>
        text_length == resume_data.text.len
        score2 == IF text_length < 500 THEN score1 - 20
                  ELSE IF text_length > 5000 THEN score1 - 10 ELSE score1
        issues2 == IF text_length < 500
                   THEN Append(issues1, Issue("Resume appears too short", 0))
                   ELSE IF text_length > 5000
                   THEN Append(issues1, Issue("Resume might be too long", 0))
                   ELSE issues1
        few == resume_data.has_structured_content
               /\ (IF "paragraphs" \in resume_data.structured_content.keys
                   THEN Len(resume_data.structured_content.paragraphs) ELSE 0) < 3
        score3 == IF few THEN score2 - 15 ELSE score2
        issues3 == IF few THEN Append(issues2, Issue("Lacks proper paragraph structure", 0))
                   ELSE issues2
    IN [score |-> Points(Max(score3, 0)), issues |-> issues3, metadata |-> metadata]

NoIssue == Issue("", 0)
Suggestion(text, items, issue) == [text |-> text, items |-> items, issue |-> issue]

RECURSIVE FixFormatting(_)
FixFormatting(issues) ==
    IF issues = <<>> THEN <<>>
    ELSE <<Suggestion("Fix formatting", <<>>, Head(issues))>> \o FixFormatting(Tail(issues))

Affirmation ==
    Suggestion("Great job! Your resume shows good alignment with the job requirements.",
               <<>>, NoIssue)

\* a plausible slip: the threshold test written <=
KeywordSuggestions_le(keyword_data) ==
    IF keyword_data.score <= Points(60) /\ keyword_data.missing_keywords # <<>>
    THEN <<Suggestion("Add these important keywords",
                      Take(keyword_data.missing_keywords, 5), NoIssue)>>
    ELSE <<>>

\* "Add these important keywords: " + ', '.join(list(missing_kw)[:5])
KeywordSuggestions(keyword_data) ==
    IF keyword_data.score < Points(60) /\ keyword_data.missing_keywords # <<>>
    THEN <<Suggestion("Add these important keywords",
                      Take(keyword_data.missing_keywords, 5), NoIssue)>>
    ELSE <<>>

\* a plausible slip: the [:5] left out
SkillSuggestions_all(skill_data) ==
    IF skill_data.score < Points(70) /\ skill_data.missing_skills # <<>>
    THEN <<Suggestion("Consider adding these skills", skill_data.missing_skills, NoIssue)>>
    ELSE <<>>

\* "Consider adding these skills: " + ', '.join(list(missing_skills)[:5])
SkillSuggestions(skill_data) ==
    IF skill_data.score < Points(70) /\ skill_data.missing_skills # <<>>
    THEN <<Suggestion("Consider adding these skills",
                      Take(skill_data.missing_skills, 5), NoIssue)>>
    ELSE <<>>

SemanticSuggestions(semantic_data) ==
    IF semantic_data.score < Points(50)
    THEN <<Suggestion("Improve content relevance by using more job-specific language",
                      <<>>, NoIssue)>>
    ELSE <<>>

ExperienceSuggestions(experience_data) ==
    IF experience_data.score < Points(60)
    THEN <<Suggestion("Highlight more relevant work experience and achievements",
                      <<>>, NoIssue)>>
    ELSE <<>>

FormattingSuggestions(formatting_data) ==
    IF formatting_data.score < Points(80)
    THEN FixFormatting(formatting_data.issues)
    ELSE <<>>

\* a plausible slip: the final "if not suggestions" left out
_generate_suggestions_no_fallback(keyword_data, skill_data, semantic_data, experience_data, formatting_data) ==
    KeywordSuggestions(keyword_data) \o SkillSuggestions(skill_data)
    \o SemanticSuggestions(semantic_data) \o ExperienceSuggestions(experience_data)
    \o FormattingSuggestions(formatting_data)

_generate_suggestions(keyword_data, skill_data, semantic_data, experience_data, formatting_data) ==
    LET suggestions ==
            KeywordSuggestions(keyword_data) \o SkillSuggestions(skill_data)
            \o SemanticSuggestions(semantic_data) \o ExperienceSuggestions(experience_data)
            \o FormattingSuggestions(formatting_data)
    IN IF suggestions = <<>> THEN <<Affirmation>> ELSE suggestions

\* the weighted total, in score units times hundredths
WeightedTotal(kw, sk, sem, ex, fm) ==
    kw * weights.keyword_match + sk * weights.skill_match
    + sem * weights.semantic_similarity + ex * weights.experience_relevance
    + fm * weights.formatting_quality

\* round(total_score, 1), in tenths of a point
Round1(total) == RoundHalfEven(total, ScoreDen * 10)

\* resume_data is the dict the caller built; sims are the cosines the vectorizer
\* and the embedding model give for these texts
calculate_ats_score(resume_data, jd_text, sims, seed) ==
    LET resume_text == resume_data.text
        keyword_score_data == _calculate_keyword_score(resume_text, jd_text, seed)
        skill_score_data == _calculate_skill_score(resume_text, jd_text, seed)
        semantic_score_data ==
            _calculate_semantic_score(resume_text, jd_text, sims.tfidf, sims.bert)
        experience_score_data ==
            _calculate_experience_score(get_structured_content(resume_data),
                                        jd_text, sims.expbert)
        formatting_score_data == _calculate_formatting_score(resume_data)
    IN IF ~keyword_score_data.ok THEN keyword_score_data
       ELSE IF ~skill_score_data.ok THEN skill_score_data
       ELSE IF ~semantic_score_data.ok THEN semantic_score_data
       ELSE IF ~experience_score_data.ok THEN experience_score_data
       ELSE Return(
           [total_score |->
                Round1(WeightedTotal(keyword_score_data.val.score,
                                     skill_score_data.val.score,
                                     semantic_score_data.val.score,
                                     experience_score_data.val.score,
                                     formatting_score_data.score)),
            breakdown |->
                [keyword_match |-> keyword_score_data.val,
                 skill_match |-> skill_score_data.val,
                 semantic_similarity |-> semantic_score_data.val,
                 experience_relevance |-> experience_score_data.val,
                 formatting_quality |-> formatting_score_data],
            suggestions |->
                _generate_suggestions(keyword_score_data.val, skill_score_data.val,
                                      semantic_score_data.val, experience_score_data.val,
                                      formatting_score_data),
            missing_skills |-> skill_score_data.val.missing_skills,
            missing_keywords |-> keyword_score_data.val.missing_keywords])

---------------------------------------------------------------------------
(* forms.py, views.py *)

\* ResumeUploadForm.clean_resume_file: size and extension
clean_resume_file(file) == file.valid

\* ResumeUploadForm.clean_job_description: len(jd.strip()) >= 50, and the
\* stripped text is what the form hands on
clean_job_description(jd) ==
    IF jd.tlen < 50 THEN Raise("ValidationError")
    ELSE Return([jd EXCEPT !.len = jd.tlen])

\* TextExtractor.extract_from_pdf / extract_from_docx: doc is what the file
\* holds; an unreadable file raises
extract(file, doc) == IF file.readable THEN Return(doc) ELSE Raise("Exception")

NoResp == [status |-> 0]
NoRow == [exists |-> FALSE]
NotCalled == [called |-> FALSE]
Called(r) == [called |-> TRUE, ok |-> r.ok, out |-> r]

\* a plausible slip: the first save already records the path of the file
TempRow_with_path ==
    [exists |-> TRUE, ats_score |-> 0, analysis_results |-> [empty |-> TRUE],
     original_resume_path |-> "resume.pdf", updated_resume_path |-> ""]

\* the ResumeAnalysis row as handle_resume_upload first saves it
TempRow ==
    [exists |-> TRUE, ats_score |-> 0, analysis_results |-> [empty |-> TRUE],
     original_resume_path |-> "", updated_resume_path |-> ""]

\* handle_resume_upload: what the try block leaves behind; constructed says
\* whether it made an ATSScoreCalculator, loading the language resources
handle_resume_upload(request, jd, seed, available) ==
    LET resume_data == extract(request.file, request.doc)
        score_calculator == ATSScoreCalculator(available)
        score == IF resume_data.ok
                 THEN calculate_ats_score(resume_data.val, jd, request.sims, seed)
                 ELSE resume_data
    IN IF ~resume_data.ok
       THEN [resp |-> [status |-> 302, to |-> "index", error |-> resume_data.err],
             score_results |-> NotCalled,
             analysis |-> TempRow, constructed |-> FALSE]
       ELSE IF ~score_calculator.ok
       THEN [resp |-> [status |-> 302, to |-> "index", error |-> score_calculator.err],
             score_results |-> NotCalled,
             analysis |-> TempRow, constructed |-> FALSE]
       ELSE IF ~score.ok
       THEN [resp |-> [status |-> 302, to |-> "index", error |-> score.err],
             score_results |-> Called(score),
             analysis |-> TempRow, constructed |-> TRUE]
       ELSE [resp |-> [status |-> 302, to |-> "analysis_results", error |-> ""],
             score_results |-> Called(score),
             analysis |-> [exists |-> TRUE,
                           ats_score |-> score.val.total_score,
                           analysis_results |-> [empty |-> FALSE, val |-> score.val],
                           original_resume_path |->
                               IF request.file.ext = "pdf" THEN "resume.pdf"
                               ELSE "resume.docx",
                           updated_resume_path |-> ""],
             constructed |-> TRUE]

\* index: the upload form view
IndexOutcome(request, seed, available) ==
    LET jd == clean_job_description(request.jd)
    IN IF request.method # "POST"
       THEN [resp |-> [status |-> 200, to |-> "index.html", error |-> ""],
             score_results |-> NotCalled, analysis |-> NoRow, constructed |-> FALSE]
       ELSE IF ~clean_resume_file(request.file) \/ ~jd.ok
       THEN [resp |-> [status |-> 200, to |-> "index.html", error |-> "ValidationError"],
             score_results |-> NotCalled, analysis |-> NoRow, constructed |-> FALSE]
       ELSE handle_resume_upload(request, jd.val, seed, available)

\* a plausible slip: the simulated document given an empty structured content
api_resume_data_structured(resume_text) ==
    [text |-> resume_text,
     has_structured_content |-> TRUE,
     structured_content |-> [keys |-> {"paragraphs"}, paragraphs |-> <<>>],
     has_metadata |-> TRUE,
     metadata |-> EmptyMetadata]

\* resume_data = {'text': resume_text, 'metadata': {}}
api_resume_data(resume_text) ==
    [text |-> resume_text,
     has_structured_content |-> FALSE,
     structured_content |-> EmptyDict,
     has_metadata |-> TRUE,
     metadata |-> EmptyMetadata]

\* api_analyze: the JSON endpoint
ApiAnalyzeOutcome(request, seed, available) ==
    LET resume_text == request.doc.text
        job_description == request.jd
        resume_data == api_resume_data(resume_text)
        score_calculator == ATSScoreCalculator(available)
        results == calculate_ats_score(resume_data, job_description, request.sims, seed)
    IN IF request.method # "POST"
       THEN [resp |-> [status |-> 405, error |-> "POST method required"],
             score_results |-> NotCalled, analysis |-> NoRow, constructed |-> FALSE]
       ELSE IF resume_text.len = 0 \/ job_description.len = 0
       THEN [resp |-> [status |-> 400,
                       error |-> "Both resume_text and job_description are required"],
             score_results |-> NotCalled, analysis |-> NoRow, constructed |-> FALSE]
       ELSE IF ~score_calculator.ok
       THEN [resp |-> [status |-> 500, error |-> score_calculator.err],
             score_results |-> NotCalled, analysis |-> NoRow, constructed |-> FALSE]
       ELSE IF ~results.ok
       THEN [resp |-> [status |-> 500, error |-> results.err],
             score_results |-> Called(results), analysis |-> NoRow, constructed |-> TRUE]
       ELSE [resp |-> [status |-> 200,
                       success |-> TRUE,
                       ats_score |-> results.val.total_score,
                       breakdown |-> results.val.breakdown,
                       suggestions |-> results.val.suggestions,
                       missing_skills |-> Take(results.val.missing_skills, 10)],
             score_results |-> Called(results), analysis |-> NoRow, constructed |-> TRUE]

---------------------------------------------------------------------------
(* The requests a client sends *)

Text(len, tlen, terms, skills, other, sents) ==
    [len |-> len, tlen |-> tlen, terms |-> terms, skills |-> skills,
     other |-> other, sents |-> sents]

\* what extract_from_pdf returns: text and metadata with formatting_issues
PdfDoc(text, issues) ==
    [text |-> text,
     has_structured_content |-> FALSE, structured_content |-> EmptyDict,
     has_metadata |-> TRUE,
     metadata |-> [has_formatting_issues |-> TRUE, formatting_issues |-> issues]]

\* what extract_from_docx returns: text, structured_content and metadata
DocxDoc(text, paragraphs) ==
    [text |-> text,
     has_structured_content |-> TRUE,
     structured_content |-> [keys |-> {"paragraphs", "tables", "headers"},
                             paragraphs |-> paragraphs],
     has_metadata |-> TRUE, metadata |-> EmptyMetadata]

Request(path, method, file, doc, jd, sims) ==
    [path |-> path, method |-> method, file |-> file, doc |-> doc, jd |-> jd,
     sims |-> sims]

File(ext) == [valid |-> TRUE, ext |-> ext, readable |-> TRUE]
Sims(t, b, e) == [tfidf |-> t, bert |-> b, expbert |-> e]

\* a text with the features S: catalog skills and noun chunks
SkillText(len, terms, S, sents) == Text(len, len, terms, S \cap Catalog, S \ Catalog, sents)

BaseResume == SkillText(1200, Items, Catalog, 1)
BaseJd == SkillText(80, Items, Catalog, 1)
BaseSims == Sims(1, 1, 1)
NoText == Text(0, 0, {}, {}, {}, 0)

\* the extractor's issue for page n
PageIssue(n) == Issue("Page has extraction issues", n)
RECURSIVE PageIssues(_)
PageIssues(S) ==
    IF S = {} THEN <<>>
    ELSE LET m == CHOOSE x \in S : \A y \in S : x <= y
         IN <<PageIssue(m)>> \o PageIssues(S \ {m})

Para(exp, sents) == [exp |-> exp, sents |-> sents]
ParaKinds == {Para(TRUE, 1), Para(TRUE, 0), Para(FALSE, 1)}
Paragraphs == UNION {[1..n -> ParaKinds] : n \in 0..MaxPara}
ExpParagraphs == <<Para(TRUE, 1), Para(FALSE, 1), Para(FALSE, 1)>>

SimValues == (0 - SimDen)..SimDen
ResumeLens == {499, 500, 5000, 5001}

Paths == {"index", "api"}
ApiRequest(resume_text, jd, sims) ==
    Request("api", "POST", File("none"), PdfDoc(resume_text, <<>>), jd, sims)
PdfRequest(resume_text, issues, jd, sims) ==
    Request("index", "POST", File("pdf"), PdfDoc(resume_text, issues), jd, sims)
DocxRequest(resume_text, paragraphs, jd, sims) ==
    Request("index", "POST", File("docx"), DocxDoc(resume_text, paragraphs), jd, sims)

\* the terms of both texts vary
KeywordRequests ==
    {ApiRequest(SkillText(1200, r, Catalog, 1), SkillText(80, j, Catalog, 1), BaseSims) :
        r \in SUBSET Items, j \in SUBSET Items}

\* the skills and noun chunks of both texts vary
SkillRequests ==
    {ApiRequest(SkillText(1200, Items, r, 1), SkillText(80, Items, j, 1), BaseSims) :
        r \in SUBSET Items, j \in SUBSET Items}

\* the similarities and the sentence counts vary
SemanticRequests ==
    {ApiRequest(SkillText(1200, r, Catalog, rs), SkillText(80, Items, Catalog, js),
                Sims(t, b, 1)) :
        r \in {{}, Items}, rs \in 0..1, js \in 0..1, t \in 1..SimDen, b \in SimValues}

\* the structured paragraphs of a .docx vary, and the similarity of its
\* experience paragraphs
ExperienceRequests ==
    {DocxRequest(BaseResume, p, BaseJd, BaseSims) : p \in Paragraphs}
    \cup {DocxRequest(BaseResume, ExpParagraphs, BaseJd, Sims(1, 1, e)) : e \in SimValues}

\* the length of the resume and the issues the extractor reports vary
FormattingRequests ==
    {PdfRequest(SkillText(n, Items, Catalog, 1), PageIssues(S), BaseJd, BaseSims) :
        n \in ResumeLens, S \in SUBSET (1..MaxIssues)}
    \cup {DocxRequest(SkillText(n, Items, Catalog, 1), SubSeq(ExpParagraphs, 1, k),
                      BaseJd, BaseSims) :
        n \in ResumeLens, k \in 1..3}

\* the job description: empty, blank, short, padded, long enough
JdTexts ==
    {NoText, Text(3, 0, {}, {}, {}, 0), Text(8, 8, {1}, {}, {}, 0)}
    \cup {Text(n[1], n[2], Items, Catalog, {}, 1) :
            n \in {<<20, 20>>, <<49, 49>>, <<52, 49>>, <<50, 50>>, <<53, 50>>}}

JdRequests ==
    {Request(p, m, File("pdf"), PdfDoc(t, <<>>), jd, BaseSims) :
        p \in Paths, m \in {"GET", "POST"}, t \in {NoText, BaseResume}, jd \in JdTexts}

\* the file: refused by the form, or accepted and unreadable
FileRequests ==
    {Request("index", "POST", [valid |-> v, ext |-> e, readable |-> r],
             IF e = "pdf" THEN PdfDoc(BaseResume, <<>>)
             ELSE DocxDoc(BaseResume, ExpParagraphs),
             BaseJd, BaseSims) :
        v \in BOOLEAN, e \in {"pdf", "docx"}, r \in BOOLEAN}

\* every sub-score at its lowest and at its highest
CornerRequests ==
    {DocxRequest(SkillText(n, Items, IF sk THEN Catalog ELSE {}, 1),
                 IF n = 499 THEN <<Para(TRUE, 1)>> ELSE ExpParagraphs,
                 SkillText(80, IF kw THEN Items ELSE {1}, Catalog, 1),
                 Sims(IF kw THEN SimDen ELSE 1, b, e)) :
        n \in {499, 500}, sk \in BOOLEAN, kw \in BOOLEAN,
        b \in {0 - SimDen, SimDen}, e \in {0 - SimDen, SimDen}}
    \cup {DocxRequest(SkillText(499, {2}, {}, 1), <<Para(TRUE, 1)>>,
                      SkillText(80, {1}, Catalog, 1), Sims(1, b, e)) :
        b \in {0 - SimDen, SimDen}, e \in {0 - SimDen, SimDen}}

\* a job description with more noun chunks than a response lists, and one
\* against which nothing is missing and every score but experience is high
LongJdRequests ==
    {ApiRequest(BaseResume, SkillText(80, Items, Catalog \cup Bulk, 1), BaseSims),
     Request("index", "POST", File("pdf"), PdfDoc(BaseResume, <<>>),
             SkillText(80, Items, Catalog \cup Bulk, 1), BaseSims),
     ApiRequest(BaseResume, BaseJd, Sims(SimDen, SimDen, SimDen))}

Requests ==
    KeywordRequests \cup SkillRequests \cup SemanticRequests \cup ExperienceRequests
    \cup FormattingRequests \cup JdRequests \cup FileRequests \cup CornerRequests
    \cup LongJdRequests

NoReq == [path |-> "none"]
NoPayloads == [given |-> FALSE]
NoCall == [fn |-> "none"]

\* an empty database and media directory, no upload in progress, nothing logged
NoRows == [rows |-> <<>>, analyses_count |-> 0, files |-> {}]
NoHandler == [pc |-> "idle"]
NoLog ==
    [last |-> [fn |-> "none", id |-> 0, resp |-> NoResp, before |-> ""],
     scored |-> 0, failed |-> {}, updated |-> {}]

---------------------------------------------------------------------------
(* The server: worker processes answering the client's request *)

Idle(f) == [w \in Workers |-> f]

\* each worker process starts with its own hash seed (PYTHONHASHSEED is random)
Init ==
    /\ hashseed \in [Workers -> HashOrders]
    /\ req = NoReq
    /\ resp = Idle(NoResp)
    /\ score_results = Idle(NotCalled)
    /\ analysis = Idle(NoRow)
    /\ sg_in = NoPayloads
    /\ sg_out = NotCalled
    /\ call = NoCall
    /\ ret = NotCalled
    /\ models_available = Idle(TRUE)
    /\ nlp_inits = Idle(0)
    /\ db = NoRows
    /\ handler = Idle(NoHandler)
    /\ log = NoLog

\* the client sends a request; it may send the same one to any worker
Submit ==
    /\ req = NoReq
    /\ \E r \in Requests : req' = r
    /\ resp' = Idle(NoResp)
    /\ score_results' = Idle(NotCalled)
    /\ analysis' = Idle(NoRow)
    /\ UNCHANGED <<hashseed, sg_in, sg_out, call, ret, models_available, nlp_inits,
                   db, handler, log>>

Answer(w, out) ==
    /\ resp' = [resp EXCEPT ![w] = out.resp]
    /\ score_results' = [score_results EXCEPT ![w] = out.score_results]
    /\ analysis' = [analysis EXCEPT ![w] = out.analysis]
    /\ nlp_inits' = [nlp_inits EXCEPT ![w] = @ + (IF out.constructed THEN 1 ELSE 0)]
    /\ UNCHANGED <<hashseed, req, sg_in, sg_out, call, ret, models_available,
                   db, handler, log>>

index(w) ==
    /\ req.path = "index"
    /\ resp[w] = NoResp
    /\ Answer(w, IndexOutcome(req, hashseed[w], models_available[w]))

api_analyze(w) ==
    /\ req.path = "api"
    /\ resp[w] = NoResp
    /\ Answer(w, ApiAnalyzeOutcome(req, hashseed[w], models_available[w]))

Next ==
    \/ Submit
    \/ \E w \in Workers : index(w)
    \/ \E w \in Workers : api_analyze(w)

Spec == Init /\ [][Next]_vars

---------------------------------------------------------------------------
(* _generate_suggestions on its own: any five payloads *)

Iota(n) == [i \in 1..n |-> i]

\* scores just below, at and just above t points
Around(t) == {Points(t) - 1, Points(t), Points(t) + 1}

KeywordPayloads ==
    {[score |-> sc, missing_keywords |-> Iota(n)] : sc \in Around(60), n \in 0..MaxMissing}
SkillPayloads ==
    {[score |-> sc, missing_skills |-> Iota(n)] : sc \in Around(70), n \in 0..MaxMissing}
SemanticPayloads == {[score |-> sc] : sc \in Around(50)}
ExperiencePayloads == {[score |-> sc] : sc \in Around(60)}
FormattingPayloads ==
    {[score |-> sc, issues |-> PageIssues(1..n)] : sc \in Around(80), n \in 0..MaxIssues}

InitSuggest ==
    /\ hashseed = Idle(Sorted(Items))
    /\ req = NoReq
    /\ resp = Idle(NoResp)
    /\ score_results = Idle(NotCalled)
    /\ analysis = Idle(NoRow)
    /\ sg_in \in [keyword_data : KeywordPayloads, skill_data : SkillPayloads,
                  semantic_data : SemanticPayloads, experience_data : ExperiencePayloads,
                  formatting_data : FormattingPayloads]
    /\ sg_out = NotCalled
    /\ call = NoCall
    /\ ret = NotCalled
    /\ models_available = Idle(TRUE)
    /\ nlp_inits = Idle(0)
    /\ db = NoRows
    /\ handler = Idle(NoHandler)
    /\ log = NoLog

generate_suggestions ==
    /\ ~sg_out.called
    /\ sg_out' = [called |-> TRUE,
                  suggestions |->
                      _generate_suggestions(sg_in.keyword_data, sg_in.skill_data,
                                            sg_in.semantic_data, sg_in.experience_data,
                                            sg_in.formatting_data)]
    /\ UNCHANGED <<hashseed, req, resp, score_results, analysis, sg_in, call, ret,
                   models_available, nlp_inits, db, handler, log>>

NextSuggest == generate_suggestions

SpecSuggest == InitSuggest /\ [][NextSuggest]_vars

---------------------------------------------------------------------------
(* Worker processes serving one request after the other, on hosts with and *)
(* without the language models *)

\* a text without vocabulary, and one without a sentence of more than 10 characters
NoVocabulary == SkillText(1200, {}, Catalog, 1)
NoSentence == SkillText(1200, Items, Catalog, 0)

ProcessRequests ==
    {ApiRequest(t, BaseJd, BaseSims) : t \in {BaseResume, NoVocabulary, NoSentence}}
    \cup {PdfRequest(t, <<>>, BaseJd, BaseSims) : t \in {BaseResume, NoVocabulary, NoSentence}}
    \cup {Request("index", "POST", [valid |-> TRUE, ext |-> "pdf", readable |-> FALSE],
                  PdfDoc(BaseResume, <<>>), BaseJd, BaseSims),
          Request("api", "GET", File("none"), PdfDoc(BaseResume, <<>>), BaseJd, BaseSims)}

InitProcess ==
    /\ hashseed = Idle(Sorted(Items))
    /\ req = NoReq
    /\ resp = Idle(NoResp)
    /\ score_results = Idle(NotCalled)
    /\ analysis = Idle(NoRow)
    /\ sg_in = NoPayloads
    /\ sg_out = NotCalled
    /\ call = NoCall
    /\ ret = NotCalled
    /\ models_available \in [Workers -> BOOLEAN]
    /\ nlp_inits = Idle(0)
    /\ db = NoRows
    /\ handler = Idle(NoHandler)
    /\ log = NoLog

\* the client sends its first request, or the next one once the last is answered
SubmitNext ==
    /\ req = NoReq \/ \A w \in Workers : resp[w] # NoResp
    /\ \A w \in Workers : nlp_inits[w] < MaxServed
    /\ \E r \in ProcessRequests : req' = r
    /\ resp' = Idle(NoResp)
    /\ score_results' = Idle(NotCalled)
    /\ analysis' = Idle(NoRow)
    /\ UNCHANGED <<hashseed, sg_in, sg_out, call, ret, models_available, nlp_inits,
                   db, handler, log>>

NextProcess ==
    \/ SubmitNext
    \/ \E w \in Workers : index(w)
    \/ \E w \in Workers : api_analyze(w)

SpecProcess == InitProcess /\ [][NextProcess]_vars

---------------------------------------------------------------------------
(* The functions of the engine called directly *)

\* the term counts of a text
TermCounts == [Items -> 0..MaxCount]

TfidfCalls ==
    {[fn |-> "calculate_tfidf_similarity", resume_text |-> r, jd_text |-> j] :
        r \in TermCounts, j \in TermCounts}

\* the cosines of a resume sentence with the sentences of the job description
AlignValues == {0 - SimDen, 0 - 1, 0, 1, SimDen}
SimMatrices(nr, nj) == [1..nr -> [1..nj -> AlignValues]]

BertCall(nj, m) ==
    [fn |-> "calculate_bert_similarity", resume_sents |-> Len(m), jd_sents |-> nj,
     bert |-> 1, sim |-> m]

BertCalls ==
    UNION {{BertCall(nj, m) : m \in SimMatrices(nr, nj)} : nr \in 0..2, nj \in 0..MaxSent}

\* a resume document with or without its optional entries
Documents ==
    {[text |-> SkillText(n, Items, Catalog, 1),
      has_structured_content |-> sc \in {"dict", "empty"},
      structured_content |-> IF sc = "dict"
                             THEN [keys |-> {"paragraphs", "tables", "headers"},
                                   paragraphs |-> SubSeq(ExpParagraphs, 1, k)]
                             ELSE EmptyDict,
      has_metadata |-> md \in {"issues", "empty"},
      metadata |-> IF md = "issues"
                   THEN [has_formatting_issues |-> TRUE,
                         formatting_issues |-> PageIssues(1..MaxIssues)]
                   ELSE EmptyMetadata] :
        n \in ResumeLens, sc \in {"dict", "empty", "absent"}, k \in 0..3,
        md \in {"issues", "empty", "absent"}}

ScoreCalls ==
    {[fn |-> "calculate_ats_score", resume_data |-> d, jd_text |-> BaseJd,
      sims |-> Sims(1, b, 1)] :
        d \in Documents, b \in {0, 1}}

\* what spaCy finds for a phrase: no entity, a technology entity written in
\* lower case or with capitals, or an entity of another label
EntityKinds == {"none", "lower", "mixed", "person"}
Entity(name, kind) ==
    [text |-> Str(name, IF kind = "lower" THEN "lower" ELSE "mixed"),
     label |-> IF kind = "person" THEN "PERSON" ELSE "ORG",
     long |-> TRUE, tech_word |-> TRUE]

\* a noun chunk of the phrase as the text spells it, or one of more than 3 words
ChunkKinds == {"none", "mixed", "long"}
Chunk(name, kind) ==
    [text |-> Str(name, "mixed"), short |-> kind # "long", stop_word |-> FALSE,
     alpha |-> TRUE]

\* the phrases of a text that spaCy may report as entities or noun chunks
Phrases == 1..MaxCat

SkillCalls ==
    {[fn |-> "extract_skills",
      text |-> [skills |-> sk,
                ents |-> {Entity(n, e[n]) : n \in {x \in Phrases : e[x] # "none"}},
                chunks |-> {Chunk(n, c[n]) : n \in {x \in Phrases : c[x] # "none"}}]] :
        sk \in {{}, Catalog}, e \in [Phrases -> EntityKinds],
        c \in [Phrases -> ChunkKinds]}

InitDirect ==
    /\ hashseed = Idle(Sorted(Items))
    /\ req = NoReq
    /\ resp = Idle(NoResp)
    /\ score_results = Idle(NotCalled)
    /\ analysis = Idle(NoRow)
    /\ sg_in = NoPayloads
    /\ sg_out = NotCalled
    /\ call \in TfidfCalls \cup BertCalls \cup ScoreCalls \cup SkillCalls
    /\ ret = NotCalled
    /\ models_available = Idle(TRUE)
    /\ nlp_inits = [w \in Workers |-> IF w = "w1" THEN 1 ELSE 0]
    /\ db = NoRows
    /\ handler = Idle(NoHandler)
    /\ log = NoLog

Returns(r) ==
    /\ ~ret.called
    /\ ret' = Called(r)
    /\ UNCHANGED <<hashseed, req, resp, score_results, analysis, sg_in, sg_out, call,
                   models_available, nlp_inits, db, handler, log>>

tfidf_call ==
    /\ call.fn = "calculate_tfidf_similarity"
    /\ Returns(tfidf_similarity(call.resume_text, call.jd_text))

bert_call ==
    /\ call.fn = "calculate_bert_similarity"
    /\ LET r == calculate_bert_similarity(call.resume_sents, call.jd_sents, call.bert)
       IN Returns(IF ~r.ok THEN r
                  ELSE Return([document_similarity |-> r.val.document_similarity,
                               sentence_similarities |-> sentence_similarities(call.sim)]))

score_call ==
    /\ call.fn = "calculate_ats_score"
    /\ Returns(calculate_ats_score(call.resume_data, call.jd_text, call.sims,
                                   hashseed["w1"]))

skills_call ==
    /\ call.fn = "extract_skills"
    /\ Returns(Return(extract_skills_strings(call.text, hashseed["w1"])))

NextDirect == tfidf_call \/ bert_call \/ score_call \/ skills_call

SpecDirect == InitDirect /\ [][NextDirect]_vars

---------------------------------------------------------------------------
(* The site: uploads, and the views that read and change the rows they     *)
(* leave in the database                                                   *)

\* ResumeAnalysis.objects.all()[:5]
RecentLimit == 5

\* MEDIA_ROOT/outputs/updated_resume_{analysis.id}.docx
output_path(analysis_id) == "outputs/updated_resume_" \o ToString(analysis_id) \o ".docx"

\* get_object_or_404(ResumeAnalysis, id=analysis_id) finds a row
Exists(database, analysis_id) == analysis_id \in 1..Len(database.rows)

NotFound == [status |-> 404, to |-> "", file |-> ""]

\* ResumeAnalysis.get_suggestions, get_missing_skills
get_suggestions(row) ==
    IF row.analysis_results.empty THEN <<>> ELSE row.analysis_results.val.suggestions
get_missing_skills(row) ==
    IF row.analysis_results.empty THEN <<>> ELSE row.analysis_results.val.missing_skills

\* analysis_results: the results page of a row
AnalysisResultsOutcome(database, analysis_id) ==
    IF ~Exists(database, analysis_id) THEN NotFound
    ELSE LET row == database.rows[analysis_id]
         IN [status |-> 200, to |-> "results.html", file |-> "",
             analysis |-> row,
             breakdown |-> IF row.analysis_results.empty THEN EmptyDict
                           ELSE row.analysis_results.val.breakdown,
             suggestions |-> get_suggestions(row),
             missing_skills |-> Take(get_missing_skills(row), 10)]

\* index on a GET: the ids of the rows in Meta.ordering (-created_at), cut at 5
recent_analyses(database) == Take(Rev(Iota(Len(database.rows))), RecentLimit)

IndexPageOutcome(database) ==
    [status |-> 200, to |-> "index.html", file |-> "",
     recent_analyses |-> recent_analyses(database)]

\* what the JSON answer of update_resume says
UpdateFailed == [status |-> 200, to |-> "", file |-> "", success |-> FALSE]
UpdateDone == [status |-> 200, to |-> "", file |-> "", success |-> TRUE]

\* how ResumeUpdater.update_resume ends: it returns after saving the document,
\* raises before it saves, or raises while saving and leaves nothing or a
\* partial file
UpdaterEnds == {"ok", "raises", "save_raises", "save_raises_partial"}

\* a plausible slip: the path is recorded before the updater has run
UpdateResumeOutcome_path_first(database, analysis_id, readable, updater) ==
    IF ~Exists(database, analysis_id) THEN [resp |-> NotFound, db |-> database]
    ELSE LET path == output_path(analysis_id)
             saved == [database EXCEPT !.rows[analysis_id].updated_resume_path = path]
         IN IF database.rows[analysis_id].original_resume_path = "" \/ ~readable
            THEN [resp |-> UpdateFailed, db |-> database]
            ELSE IF updater = "ok"
            THEN [resp |-> UpdateDone, db |-> [saved EXCEPT !.files = @ \cup {path}]]
            ELSE [resp |-> UpdateFailed, db |-> saved]

\* update_resume: the original file is extracted again (a row without a path,
\* or an unreadable file, raises), the updater writes output_path, and only
\* then is the path saved in the row
UpdateResumeOutcome(database, analysis_id, readable, updater) ==
    IF ~Exists(database, analysis_id) THEN [resp |-> NotFound, db |-> database]
    ELSE LET row == database.rows[analysis_id]
             original_path == row.original_resume_path
             path == output_path(analysis_id)
             written == [database EXCEPT !.files = @ \cup {path}]
         IN IF original_path = "" \/ ~readable
            THEN [resp |-> UpdateFailed, db |-> database]
            ELSE IF updater \in {"raises", "save_raises"}
            THEN [resp |-> UpdateFailed, db |-> database]
            ELSE IF updater = "save_raises_partial"
            THEN [resp |-> UpdateFailed, db |-> written]
            ELSE [resp |-> UpdateDone,
                  db |-> [written EXCEPT !.rows[analysis_id].updated_resume_path = path]]

ToResults == [status |-> 302, to |-> "analysis_results", file |-> ""]

\* download_resume: the file, if the row has a path and the file exists and
\* can be opened
DownloadResumeOutcome(database, analysis_id, opens) ==
    IF ~Exists(database, analysis_id) THEN NotFound
    ELSE LET row == database.rows[analysis_id]
         IN IF row.updated_resume_path = ""
               \/ row.updated_resume_path \notin database.files
            THEN ToResults
            ELSE IF opens
            THEN [status |-> 200, to |-> "", file |-> row.updated_resume_path]
            ELSE ToResults

\* the uploads of the site: a .docx that is scored, a text the vectorizer
\* finds no term in, and a file that cannot be read
UploadRequests ==
    {DocxRequest(BaseResume, ExpParagraphs, BaseJd, BaseSims),
     PdfRequest(SkillText(1200, {}, Catalog, 1), <<>>, BaseJd, BaseSims),
     Request("index", "POST", [valid |-> TRUE, ext |-> "docx", readable |-> FALSE],
             DocxDoc(BaseResume, ExpParagraphs), BaseJd, BaseSims)}

\* request.user: nobody, or the one user of the site
Users == {"anonymous", "user"}

InitSite ==
    /\ hashseed = Idle(Sorted(Items))
    /\ req = NoReq
    /\ resp = Idle(NoResp)
    /\ score_results = Idle(NotCalled)
    /\ analysis = Idle(NoRow)
    /\ sg_in = NoPayloads
    /\ sg_out = NotCalled
    /\ call = NoCall
    /\ ret = NotCalled
    /\ models_available = Idle(TRUE)
    /\ nlp_inits = Idle(0)
    /\ db = NoRows
    /\ handler = Idle(NoHandler)
    /\ log = NoLog

Logged(fn, id, r, before) == [fn |-> fn, id |-> id, resp |-> r, before |-> before]

\* index on a valid POST of u, up to UserProfile.objects.get_or_create: the row
\* is saved, the file extracted and scored and the row updated, or the
\* exception answered; for the user, the profile is then loaded
upload(w, u) ==
    /\ handler[w].pc = "idle"
    /\ Len(db.rows) < MaxRows
    /\ \E request \in UploadRequests :
        LET out == IndexOutcome(request, hashseed[w], models_available[w])
            id == Len(db.rows) + 1
            scored == out.resp.to = "analysis_results"
        IN /\ db' = [db EXCEPT !.rows = Append(@, out.analysis)]
           /\ nlp_inits' = [nlp_inits EXCEPT ![w] = @ + (IF out.constructed THEN 1 ELSE 0)]
           /\ IF scored /\ u # "anonymous"
              THEN /\ handler' = [handler EXCEPT ![w] =
                                     [pc |-> "profile", id |-> id, resp |-> out.resp,
                                      analyses_count |-> db.analyses_count]]
                   /\ log' = [log EXCEPT !.last = Logged("handle_resume_upload", id, NoResp, ""),
                                         !.scored = @ + 1]
              ELSE /\ handler' = handler
                   /\ log' = [log EXCEPT !.last = Logged("handle_resume_upload", id, out.resp, ""),
                                         !.failed = IF scored THEN @ ELSE @ \cup {id}]
    /\ UNCHANGED <<hashseed, req, resp, score_results, analysis, sg_in, sg_out, call, ret,
                   models_available>>

\* the rest of the upload of the user: profile.analyses_count += 1;
\* profile.save(); redirect
upload_profile(w) ==
    /\ handler[w].pc = "profile"
    /\ db' = [db EXCEPT !.analyses_count = handler[w].analyses_count + 1]
    /\ handler' = [handler EXCEPT ![w] = NoHandler]
    /\ log' = [log EXCEPT !.last = Logged("handle_resume_upload", handler[w].id,
                                          handler[w].resp, "")]
    /\ UNCHANGED <<hashseed, req, resp, score_results, analysis, sg_in, sg_out, call, ret,
                   models_available, nlp_inits>>

UnchangedBySite ==
    UNCHANGED <<hashseed, req, resp, score_results, analysis, sg_in, sg_out, call, ret,
                models_available, nlp_inits, handler>>

update_resume ==
    /\ \E analysis_id \in 1..MaxRows, readable \in BOOLEAN, updater \in UpdaterEnds :
        LET out == UpdateResumeOutcome(db, analysis_id, readable, updater)
            before == IF Exists(db, analysis_id)
                      THEN db.rows[analysis_id].updated_resume_path ELSE ""
        IN /\ db' = out.db
           /\ log' = [log EXCEPT !.last = Logged("update_resume", analysis_id, out.resp, before),
                                 !.updated = IF out.resp = UpdateDone
                                             THEN @ \cup {analysis_id} ELSE @]
    /\ UnchangedBySite

download_resume ==
    /\ \E analysis_id \in 1..MaxRows, opens \in BOOLEAN :
        log' = [log EXCEPT !.last = Logged("download_resume", analysis_id,
                                           DownloadResumeOutcome(db, analysis_id, opens), "")]
    /\ UNCHANGED db
    /\ UnchangedBySite

analysis_results ==
    /\ \E analysis_id \in 1..MaxRows :
        log' = [log EXCEPT !.last = Logged("analysis_results", analysis_id,
                                           AnalysisResultsOutcome(db, analysis_id), "")]
    /\ UNCHANGED db
    /\ UnchangedBySite

index_page ==
    /\ log' = [log EXCEPT !.last = Logged("index", 0, IndexPageOutcome(db), "")]
    /\ UNCHANGED db
    /\ UnchangedBySite

\* a file of the media directory is removed from outside the application
file_removed ==
    /\ \E path \in db.files :
        /\ db' = [db EXCEPT !.files = @ \ {path}]
        /\ log' = [log EXCEPT !.last = Logged("file_removed", 0, NoResp, path)]
    /\ UnchangedBySite

\* a visitor who is not logged in, served by one worker process
NextSite ==
    \/ upload("w1", "anonymous")
    \/ update_resume
    \/ download_resume
    \/ analysis_results
    \/ index_page
    \/ file_removed

SpecSite == InitSite /\ [][NextSite]_vars

\* uploads of the user and of visitors, served by two worker processes
NextUpload ==
    \/ \E w \in Workers, u \in Users : upload(w, u)
    \/ \E w \in Workers : upload_profile(w)

\* a worker's host may lack the language models, and its uploads then fail
InitUpload ==
    /\ hashseed = Idle(Sorted(Items))
    /\ req = NoReq
    /\ resp = Idle(NoResp)
    /\ score_results = Idle(NotCalled)
    /\ analysis = Idle(NoRow)
    /\ sg_in = NoPayloads
    /\ sg_out = NotCalled
    /\ call = NoCall
    /\ ret = NotCalled
    /\ models_available \in [Workers -> BOOLEAN]
    /\ nlp_inits = Idle(0)
    /\ db = NoRows
    /\ handler = Idle(NoHandler)
    /\ log = NoLog

SpecUpload == InitUpload /\ [][NextUpload]_vars

---------------------------------------------------------------------------
(* Properties *)

Abs(x) == IF x < 0 THEN 0 - x ELSE x

\* calculate_ats_score returned a result to worker w
Returned(w) == score_results[w].called /\ score_results[w].ok
Result(w) == score_results[w].out.val
Score(w, name) == Result(w).breakdown[name].score

\* the claimed weighted sum of the returned sub-scores, in score units times hundredths
ClaimedTotal(w) ==
    30 * Score(w, "keyword_match") + 25 * Score(w, "skill_match")
    + 20 * Score(w, "semantic_similarity") + 15 * Score(w, "experience_relevance")
    + 10 * Score(w, "formatting_quality")

\* C1: whenever calculate_ats_score returns, total_score is the tenth of a point
\* nearest to 0.30*keyword + 0.25*skill + 0.20*semantic + 0.15*experience
\* + 0.10*formatting of the sub-scores in the returned breakdown, and the five
\* weights are these and sum to 1.0
C1_TotalIsWeightedSum ==
    /\ weights.keyword_match + weights.skill_match + weights.semantic_similarity
       + weights.experience_relevance + weights.formatting_quality = 100
    /\ \A w \in Workers :
        Returned(w) =>
            2 * Abs(Result(w).total_score * ScoreDen * 10 - ClaimedTotal(w))
                <= ScoreDen * 10

\* a result whose weighted sum is not a whole number of tenths, with every
\* sub-score positive: the rounding and every weight act
C1_Witness ==
    \E w \in Workers :
        /\ Returned(w)
        /\ Result(w).total_score * ScoreDen * 10 # ClaimedTotal(w)
        /\ \A name \in DOMAIN Result(w).breakdown : Score(w, name) > 0

InRange(x) == 0 <= x /\ x <= Points(100)

\* C2: whenever calculate_ats_score returns, total_score and each of the five
\* sub-scores lie in [0, 100]
C2_ScoresInRange ==
    \A w \in Workers :
        Returned(w) =>
            /\ 0 <= Result(w).total_score /\ Result(w).total_score <= 1000
            /\ \A name \in DOMAIN Result(w).breakdown : InRange(Score(w, name))

\* the list has a suggestion with this text
Has(suggestions, text) == \E i \in 1..Len(suggestions) : suggestions[i].text = text

KeywordRule == sg_in.keyword_data.score < Points(60) /\ sg_in.keyword_data.missing_keywords # <<>>
SkillRule == sg_in.skill_data.score < Points(70) /\ sg_in.skill_data.missing_skills # <<>>
SemanticRule == sg_in.semantic_data.score < Points(50)
ExperienceRule == sg_in.experience_data.score < Points(60)
FormattingRule == sg_in.formatting_data.score < Points(80) /\ sg_in.formatting_data.issues # <<>>
NoRule == ~KeywordRule /\ ~SkillRule /\ ~SemanticRule /\ ~ExperienceRule /\ ~FormattingRule

\* C3: _generate_suggestions never returns an empty list, and it returns exactly
\* the single affirmation message iff none of the five threshold rules applies
C3_NeverEmpty ==
    sg_out.called =>
        /\ Len(sg_out.suggestions) >= 1
        /\ (sg_out.suggestions = <<Affirmation>>) <=> NoRule

\* no rule applies although lists of missing items and issues are given
C3_Witness ==
    /\ sg_out.called /\ NoRule /\ sg_out.suggestions = <<Affirmation>>
    /\ sg_in.keyword_data.missing_keywords # <<>>
    /\ sg_in.formatting_data.issues # <<>>

\* C4: the thresholds are strict: a keyword suggestion only if keyword score < 60
\* and keywords are missing, a skill suggestion only if skill score < 70 and
\* skills are missing, the relevance suggestion iff semantic score < 50, the
\* experience suggestion iff experience score < 60, formatting suggestions only
\* if formatting score < 80
C4_StrictThresholds ==
    sg_out.called =>
        LET s == sg_out.suggestions
        IN /\ Has(s, "Add these important keywords") =>
                sg_in.keyword_data.score < Points(60)
                /\ sg_in.keyword_data.missing_keywords # <<>>
           /\ Has(s, "Consider adding these skills") =>
                sg_in.skill_data.score < Points(70)
                /\ sg_in.skill_data.missing_skills # <<>>
           /\ Has(s, "Improve content relevance by using more job-specific language")
                <=> sg_in.semantic_data.score < Points(50)
           /\ Has(s, "Highlight more relevant work experience and achievements")
                <=> sg_in.experience_data.score < Points(60)
           /\ Has(s, "Fix formatting") => sg_in.formatting_data.score < Points(80)

\* every score exactly at its threshold, with missing items and issues: nothing
\* but the affirmation
C4_Witness ==
    /\ sg_out.called
    /\ sg_in.keyword_data.score = Points(60) /\ sg_in.keyword_data.missing_keywords # <<>>
    /\ sg_in.skill_data.score = Points(70) /\ sg_in.skill_data.missing_skills # <<>>
    /\ sg_in.semantic_data.score = Points(50)
    /\ sg_in.experience_data.score = Points(60)
    /\ sg_in.formatting_data.score = Points(80) /\ sg_in.formatting_data.issues # <<>>
    /\ sg_out.suggestions = <<Affirmation>>

\* the place of a suggestion in the fixed order
Rank(text) ==
    CASE text = "Add these important keywords" -> 1
      [] text = "Consider adding these skills" -> 2
      [] text = "Improve content relevance by using more job-specific language" -> 3
      [] text = "Highlight more relevant work experience and achievements" -> 4
      [] text = "Fix formatting" -> 5
      [] OTHER -> 0

IsPrefix(s, t) == Len(s) <= Len(t) /\ s = SubSeq(t, 1, Len(s))

\* the issues of the "Fix formatting" suggestions, in the order of the list
RECURSIVE FixedIssues(_)
FixedIssues(s) ==
    IF s = <<>> THEN <<>>
    ELSE (IF Head(s).text = "Fix formatting" THEN <<Head(s).issue>> ELSE <<>>)
         \o FixedIssues(Tail(s))

\* C5: the suggestions come in the order keyword, skill, relevance, experience,
\* then one "Fix formatting" per issue in the order of the issues list; the
\* keyword and the skill suggestion name at most 5 of the missing items; with
\* formatting score < 80 there are as many formatting suggestions as issues
C5_OrderAndLimits ==
    sg_out.called =>
        LET s == sg_out.suggestions
        IN /\ \A i, j \in 1..Len(s) :
                i < j => /\ Rank(s[i].text) <= Rank(s[j].text)
                         /\ Rank(s[i].text) = Rank(s[j].text) => Rank(s[i].text) = 5
           /\ \A i \in 1..Len(s) :
                /\ s[i].text = "Add these important keywords" =>
                     Len(s[i].items) <= 5
                     /\ IsPrefix(s[i].items, sg_in.keyword_data.missing_keywords)
                /\ s[i].text = "Consider adding these skills" =>
                     Len(s[i].items) <= 5
                     /\ IsPrefix(s[i].items, sg_in.skill_data.missing_skills)
           /\ sg_in.formatting_data.score < Points(80) =>
                FixedIssues(s) = sg_in.formatting_data.issues

\* all four rules apply, more than 5 keywords and skills are missing and there
\* are two issues
C5_Witness ==
    /\ sg_out.called
    /\ Len(sg_in.keyword_data.missing_keywords) > 5
    /\ Len(sg_in.skill_data.missing_skills) > 5
    /\ Len(sg_in.formatting_data.issues) >= 2
    /\ Len(sg_out.suggestions) = 4 + Len(sg_in.formatting_data.issues)
    /\ Len(sg_out.suggestions[1].items) = 5
    /\ Len(sg_out.suggestions[2].items) = 5

\* worker w has answered the request
Answered(w) == resp[w] # NoResp

\* the dict the handler passes to calculate_ats_score
ResumeData ==
    IF req.path = "api"
    THEN [req.doc EXCEPT !.has_structured_content = FALSE,
                         !.structured_content = EmptyDict,
                         !.has_metadata = TRUE, !.metadata = EmptyMetadata]
    ELSE req.doc

\* C6: when the job description yields no keyword (its text is empty after
\* preprocessing), the scoring that was started returns, with keyword score 0
\* and empty matched and missing keyword lists
C6_NoKeywordsScoresZero ==
    \A w \in Workers :
        (score_results[w].called /\ req.jd.terms = {}) =>
            /\ score_results[w].ok
            /\ Result(w).breakdown.keyword_match.score = 0
            /\ Result(w).breakdown.keyword_match.matched_keywords = <<>>
            /\ Result(w).breakdown.keyword_match.missing_keywords = <<>>

\* C7: when the job description names no skill of the catalog, the skill score
\* is exactly 50, whatever the resume holds and whatever noun chunks the job
\* description has
C7_NoCatalogSkillScoresFifty ==
    \A w \in Workers :
        (Returned(w) /\ req.jd.skills = {}) => Score(w, "skill_match") = Points(50)

\* the document has no structured paragraphs: no structured_content, an empty
\* one, one without 'paragraphs', or an empty 'paragraphs'
NoStructuredParagraphs(resume_data) ==
    \/ ~resume_data.has_structured_content
    \/ resume_data.structured_content.keys = {}
    \/ "paragraphs" \notin resume_data.structured_content.keys
    \/ resume_data.structured_content.paragraphs = <<>>

\* C8: when the resume document has no structured paragraphs, the experience
\* sub-score is exactly 30 with details "Unable to analyze experience structure"
C8_NoParagraphsScoresThirty ==
    \A w \in Workers :
        (Returned(w) /\ NoStructuredParagraphs(ResumeData)) =>
            Result(w).breakdown.experience_relevance
                = [score |-> Points(30),
                   details |-> "Unable to analyze experience structure"]

\* the response carries or announces a score: the API's success body, or the
\* upload's redirect to the results page
Scored(r) ==
    \/ r.status = 200 /\ "ats_score" \in DOMAIN r
    \/ r.status = 302 /\ r.to = "analysis_results"

\* C9: on the upload form and on api_analyze, a posted job description of
\* fewer than 50 characters after trimming is refused: no score is computed
\* for it and none is returned (a request that fails for another reason is
\* not held against the claim)
C9_ShortJdRejected ==
    \A w \in Workers :
        (Answered(w) /\ req.method = "POST" /\ req.jd.tlen < 50) =>
            ~Returned(w) /\ ~Scored(resp[w])

\* C10: two calls of calculate_ats_score for the same request give the same
\* outcome: the same scores, suggestions, missing_skills and missing_keywords,
\* in the same order
C10_Deterministic ==
    \A v, w \in Workers :
        (score_results[v].called /\ score_results[w].called) =>
            score_results[v] = score_results[w]

\* the skills a text holds: the catalog skills and the noun chunks found in it
TextSkills(text) == text.skills \cup text.other

NoDuplicates(s) == \A i, j \in 1..Len(s) : i # j => s[i] # s[j]

\* C11: in the skill-match result, missing_skills is the job description's
\* skills minus the resume's, matched_skills is their intersection, the two
\* lists are disjoint and together are the job description's skills, and no
\* skill of the resume is in missing_skills
C11_SkillSets ==
    \A w \in Workers :
        Returned(w) =>
            LET sk == Result(w).breakdown.skill_match
                matched == Range(sk.matched_skills)
                missing == Range(sk.missing_skills)
            IN /\ missing = TextSkills(req.jd) \ TextSkills(ResumeData.text)
               /\ matched = TextSkills(req.jd) \cap TextSkills(ResumeData.text)
               /\ matched \cap missing = {}
               /\ matched \cup missing = TextSkills(req.jd)
               /\ missing \cap TextSkills(ResumeData.text) = {}
               /\ NoDuplicates(sk.matched_skills) /\ NoDuplicates(sk.missing_skills)
               /\ Result(w).missing_skills = sk.missing_skills

\* the resume has one skill of the job description and lacks two, one of the
\* catalog and one noun chunk
C11_Witness ==
    \E w \in Workers :
        /\ Returned(w)
        /\ Len(Result(w).breakdown.skill_match.matched_skills) >= 1
        /\ Range(Result(w).breakdown.skill_match.missing_skills) \cap Catalog # {}
        /\ Range(Result(w).breakdown.skill_match.missing_skills) \ Catalog # {}

\* the deduction for the length of the text
LengthPenalty(n) == IF n < 500 THEN 20 ELSE IF n > 5000 THEN 10 ELSE 0

\* the structured paragraphs present in the document
StructuredParagraphs(resume_data) ==
    IF resume_data.has_structured_content
       /\ "paragraphs" \in resume_data.structured_content.keys
    THEN resume_data.structured_content.paragraphs ELSE <<>>

\* the formatting issues the extractor reported for the document
ReportedIssues(resume_data) ==
    IF resume_data.has_metadata /\ resume_data.metadata.has_formatting_issues
    THEN resume_data.metadata.formatting_issues ELSE <<>>

\* C12: the formatting sub-score is max(0, min(100, 100 - 10*issues - L - P)),
\* L being 20 for a text shorter than 500, 10 for one longer than 5000 and 0
\* otherwise, P being 15 whenever the document has fewer than 3 structured
\* paragraphs; the issues list has one entry per deduction
C12_FormattingFormula ==
    \A w \in Workers :
        Returned(w) =>
            LET fm == Result(w).breakdown.formatting_quality
                n == Len(ReportedIssues(ResumeData))
                L == LengthPenalty(ResumeData.text.len)
                P == IF Len(StructuredParagraphs(ResumeData)) < 3 THEN 15 ELSE 0
            IN /\ fm.score = Points(Max(0, Min(100, 100 - 10 * n - L - P)))
               /\ Len(fm.issues) = n + (IF L > 0 THEN 1 ELSE 0) + (IF P > 0 THEN 1 ELSE 0)

\* C13: when a text handed to calculate_bert_similarity has no sentence longer
\* than 10 characters, the scoring ends with an explicit insufficient-content
\* error, and no score is returned
C13_InsufficientContentReported ==
    \A w \in Workers :
        (/\ score_results[w].called
         /\ ResumeData.text.terms # {} /\ req.jd.terms # {}
         /\ (ResumeData.text.sents = 0 \/ req.jd.sents = 0)) =>
            /\ ~score_results[w].ok
            /\ score_results[w].out.err = "InsufficientContent"

\* the payload says that its score is a default
Indicated(payload) == "details" \in DOMAIN payload

\* C15: whenever a sub-score is a fixed default (keyword 0 for a job description
\* without keywords, skill 50 for one without skills, experience 30 or 20), the
\* payload of that sub-score carries an explicit indication of it
C15_DefaultsIndicated ==
    \A w \in Workers :
        Returned(w) =>
            /\ Result(w).breakdown.keyword_match.total_jd_keywords = 0 =>
                    Indicated(Result(w).breakdown.keyword_match)
            /\ TextSkills(req.jd) = {} => Indicated(Result(w).breakdown.skill_match)
            /\ (\A i \in 1..Len(StructuredParagraphs(ResumeData)) :
                    ~StructuredParagraphs(ResumeData)[i].exp) =>
                    Indicated(Result(w).breakdown.experience_relevance)

\* the terms a text of a direct call holds
TermsOf(counts) == {t \in DOMAIN counts : counts[t] > 0}

\* C14: when either text handed to calculate_tfidf_similarity has no term, also
\* when both have none, the call returns similarity_score 0 and no matching
\* terms, and does not raise
C14_NoTermsGivesZero ==
    (/\ call.fn = "calculate_tfidf_similarity" /\ ret.called
     /\ (TermsOf(call.resume_text) = {} \/ TermsOf(call.jd_text) = {})) =>
        /\ ret.ok
        /\ ret.out.val.similarity_score = Frac(0, 1)
        /\ ret.out.val.matching_terms = <<>>

\* C16: calculate_ats_score on a document without 'structured_content', without
\* 'metadata' or without both returns; without metadata the formatting score
\* has no deduction for reported issues and lists none, without structured
\* content the experience sub-score is the default 30
C16_MissingEntriesTolerated ==
    (call.fn = "calculate_ats_score" /\ ret.called) =>
        LET d == call.resume_data
        IN /\ (~d.has_structured_content \/ ~d.has_metadata) => ret.ok
           /\ (ret.ok /\ ~d.has_metadata) =>
                LET fm == ret.out.val.breakdown.formatting_quality
                    P == IF d.has_structured_content
                            /\ Len(StructuredParagraphs(d)) < 3 THEN 15 ELSE 0
                IN /\ fm.score = Points(100 - LengthPenalty(d.text.len) - P)
                   /\ \A i \in 1..Len(fm.issues) : fm.issues[i].page = 0
                   /\ fm.metadata = EmptyMetadata
           /\ (ret.ok /\ ~d.has_structured_content) =>
                ret.out.val.breakdown.experience_relevance
                    = [score |-> Points(30),
                       details |-> "Unable to analyze experience structure"]

\* a document with neither entry, and a text short enough to have an issue of
\* its own, was scored
C16_Witness ==
    /\ call.fn = "calculate_ats_score" /\ ret.called /\ ret.ok
    /\ ~call.resume_data.has_structured_content /\ ~call.resume_data.has_metadata
    /\ Len(ret.out.val.breakdown.formatting_quality.issues) = 1
    /\ ret.out.val.total_score > 0

\* the matching terms of a result, each with its combined score
CombinedScores(result) ==
    {[term |-> result.matching_terms[i].term,
      combined_score |-> result.matching_terms[i].combined_score] :
        i \in 1..Len(result.matching_terms)}

\* C19: calculate_tfidf_similarity is symmetric: whenever it returns for (A, B),
\* it returns for (B, A) the same similarity_score and the same matching terms
\* with the same combined scores
C19_TfidfSymmetric ==
    (call.fn = "calculate_tfidf_similarity" /\ ret.called /\ ret.ok) =>
        LET swapped == tfidf_similarity(call.jd_text, call.resume_text)
        IN /\ swapped.ok
           /\ swapped.val.similarity_score = ret.out.val.similarity_score
           /\ CombinedScores(swapped.val) = CombinedScores(ret.out.val)

\* the resume has a term the job description lacks, and they share two terms
\* of different combined scores
C19_Witness ==
    /\ call.fn = "calculate_tfidf_similarity" /\ ret.called /\ ret.ok
    /\ TermsOf(call.resume_text) \ TermsOf(call.jd_text) # {}
    /\ Len(ret.out.val.matching_terms) >= 2
    /\ ret.out.val.matching_terms[1].combined_score
         # ret.out.val.matching_terms[2].combined_score
    /\ ret.out.val.similarity_score.num # 0
    /\ ret.out.val.similarity_score # Frac(1, 1)

\* C20: calculate_bert_similarity returns one alignment entry per resume
\* sentence, in order; best_match is a job description sentence of maximal
\* cosine with it, the earliest of them, and similarity is that maximum, also
\* when every cosine is zero or negative
C20_BestMatchIsMaximum ==
    (call.fn = "calculate_bert_similarity" /\ ret.called /\ ret.ok) =>
        LET s == ret.out.val.sentence_similarities
        IN /\ Len(s) = call.resume_sents
           /\ \A i \in 1..Len(s) :
                /\ s[i].resume_sentence = i
                /\ s[i].best_match \in 1..call.jd_sents
                /\ \A j \in 1..call.jd_sents : call.sim[i][j] <= s[i].similarity
                /\ call.sim[i][s[i].best_match] = s[i].similarity
                /\ \A j \in 1..(s[i].best_match - 1) : call.sim[i][j] < s[i].similarity

\* the fatal conditions of a scoring request: the models cannot be loaded, a
\* text is no valid input, a text has too little content
FatalKinds == {ModelNotFound, EmptyVocabulary, NanEmbedding}

\* the request holds a fatal condition for worker w: its host lacks the models,
\* a text has no vocabulary, or a text has no sentence of more than 10 characters
FatalCondition(w) ==
    \/ ~models_available[w]
    \/ ResumeData.text.terms = {} \/ req.jd.terms = {}
    \/ ResumeData.text.sents = 0 \/ req.jd.sents = 0

\* worker w ended the request on a fatal condition
Failed(w) ==
    /\ Answered(w) /\ "error" \in DOMAIN resp[w]
    /\ resp[w].error \in FatalKinds

\* what tells one response from another apart from the wording of a message:
\* its status and, for a redirect, its destination
Outcome(r) == IF r.status = 302 THEN [status |-> r.status, to |-> r.to]
              ELSE [status |-> r.status]

\* C17: a fatal condition in a scoring request reaches the caller as an error
\* of a kind of its own: two requests that ended on different fatal conditions
\* have different outcomes, and none of them is answered as a success
C17_FatalKindsDistinguishable ==
    /\ \A w \in Workers : (Answered(w) /\ FatalCondition(w)) => ~Scored(resp[w])
    /\ \A v, w \in Workers :
        (Failed(v) /\ Failed(w) /\ resp[v].error # resp[w].error) =>
            Outcome(resp[v]) # Outcome(resp[w])

\* C18: the language resources are initialized once per process: however many
\* requests a worker process serves, NLPProcessor.__init__ loads them at most
\* once in it
C18_ResourcesInitializedOnce ==
    \A w \in Workers : nlp_inits[w] <= 1

\* C25: on api_analyze the document has no structured content: every successful
\* response has experience score 30, no paragraph deduction in the formatting
\* score, the experience suggestion and not the affirmation, and at most 10
\* missing skills; a request that is not a POST is answered 405, one without
\* resume_text or job_description 400, both without scoring
C25_ApiPath ==
    \A w \in Workers :
        (Answered(w) /\ req.path = "api") =>
            /\ req.method # "POST" => resp[w].status = 405 /\ ~score_results[w].called
            /\ (req.method = "POST" /\ (req.doc.text.len = 0 \/ req.jd.len = 0)) =>
                    resp[w].status = 400 /\ ~score_results[w].called
            /\ resp[w].status = 200 =>
                /\ Returned(w)
                /\ resp[w].breakdown.experience_relevance
                       = [score |-> Points(30),
                          details |-> "Unable to analyze experience structure"]
                /\ resp[w].breakdown.formatting_quality.score
                       = Points(100 - LengthPenalty(req.doc.text.len))
                /\ \A i \in 1..Len(resp[w].breakdown.formatting_quality.issues) :
                       resp[w].breakdown.formatting_quality.issues[i].issue
                           # "Lacks proper paragraph structure"
                /\ Has(resp[w].suggestions,
                       "Highlight more relevant work experience and achievements")
                /\ ~Has(resp[w].suggestions, Affirmation.text)
                /\ Len(resp[w].missing_skills) <= 10
                /\ IsPrefix(resp[w].missing_skills, Result(w).missing_skills)

\* a successful response to a job description with more than 10 missing skills
C25_Witness ==
    \E w \in Workers :
        /\ Answered(w) /\ req.path = "api" /\ resp[w].status = 200
        /\ Len(Result(w).missing_skills) > 10
        /\ Len(resp[w].missing_skills) = 10

\* the skill lists of an extract_skills result, one per category
SkillLists(result) == {result[c] : c \in DOMAIN result}

\* C21: in every result of extract_skills every skill string of every category,
\* the catalog categories and 'other', is lower-case and occurs at most once
\* within its category
C21_LowerCaseOnce ==
    (call.fn = "extract_skills" /\ ret.called) =>
        \A list \in SkillLists(ret.out.val) :
            /\ \A i \in 1..Len(list) : list[i].case = "lower"
            /\ NoDuplicates(list)

C23_CountsEveryUpload ==
    (\A w \in Workers : handler[w].pc = "idle") => db.analyses_count = log.scored

\* C24: download_resume returns a file only if an update_resume of the same row
\* succeeded and the row's updated_resume_path is an existing file; otherwise
\* it returns no file and redirects to the results page; a failed update_resume
\* leaves updated_resume_path as it was
C24_DownloadAfterUpdate ==
    /\ (log.last.fn = "download_resume" /\ Exists(db, log.last.id)) =>
        LET row == db.rows[log.last.id]
            r == log.last.resp
        IN /\ r.file # "" =>
                /\ log.last.id \in log.updated
                /\ r.file = row.updated_resume_path
                /\ r.file \in db.files
           /\ r.file = "" => r = ToResults
           /\ (log.last.id \notin log.updated \/ row.updated_resume_path \notin db.files) =>
                r.file = ""
    /\ (log.last.fn = "update_resume" /\ Exists(db, log.last.id)
            /\ log.last.resp # UpdateDone) =>
        /\ log.last.resp = UpdateFailed
        /\ db.rows[log.last.id].updated_resume_path = log.last.before

\* the file of a row whose update had succeeded was downloaded
C24_Witness ==
    /\ log.last.fn = "download_resume"
    /\ log.last.resp.file # ""
    /\ log.last.id \in log.updated

====
